---- MODULE Spec2Model ----
(***************************************************************************)
(* Model of the Web Story generator (src/src/lib/story-generator.ts).      *)
(*                                                                         *)
(* generateStory is modelled as a state machine: entry (title slide and    *)
(* chunk budget), one step per iteration of the segmenter loop, the        *)
(* leftover/slice epilogue of segmentContent, createContentSlides, and the *)
(* CTA push with the return.                                               *)
(*                                                                         *)
(* Text is modelled at the granularity the code's regular expressions      *)
(* look at.  A paragraph (one element of cleanContent.split(/\n\s*\n/))    *)
(* is a record                                                             *)
(*    lead   TRUE when the paragraph starts with white space               *)
(*    head   "none" | "tag" (<h2>..</h2> around it) | "hash" ("# " prefix) *)
(*    quote  "none" | "tag" (<blockquote>..</blockquote> around the words) *)
(*                  | "gt"  ("> " prefix)                                  *)
(*    img    "none" | "alt"    ( <img src="U" alt="A">)                    *)
(*                  | "quoted" ( <img src="U">)                            *)
(*                  | "bare"   ( <img src=U>, unquoted attribute)          *)
(*    src    the image URL U ("" without image)                            *)
(*    n      the number of plain words                                     *)
(* Tags are written against the words (no white space), the "#" and ">"    *)
(* markers and the attributes of an image are separated by one space; a    *)
(* heading marker, when there is one, is what the paragraph starts with.   *)
(* A text is a sequence of such pieces, joined by "\n\n".                  *)
(***************************************************************************)
EXTENDS Integers, Sequences, FiniteSets, TLC

VARIABLES postData, options, pc, slides, maxChunks, i, chunks, currentChunk,
          chunkWordCount,
          templates, templateId, template, thrown,
          metadata, ampHTML, validation, calls,
          sockets, wsRef, timers, disconnected,
          story, currentSlideIndex, pendingSlides,
          cleanContent, maxLength, sentences, excerpt, returned

\* the state of the pages: the WebSocket hook and the story builder
page == <<sockets, wsRef, timers, disconnected, story, currentSlideIndex, pendingSlides>>

\* a call of generateExcerpt: its arguments, the sentences the loop has still
\* to look at, the excerpt so far, and what the call returned
excerptCall == <<cleanContent, maxLength, sentences, excerpt, returned>>

\* what generateStory neither reads nor writes, except this.template (read)
around == <<templates, templateId, template, thrown, metadata, ampHTML, validation, calls,
            page, excerptCall>>

vars == <<postData, options, pc, slides, maxChunks, i, chunks, currentChunk,
          chunkWordCount, around>>

\* ------------------------------------------------------------------ bounds
MaxParagraphs == 3
MaxSlidesOption == 4
ManyParagraphs == 10

\* --------------------------------------------------------- program constants
maxWordsPerSlide == 50
TitleDuration == 60
CTADuration == 50
BaseTime == 30
MinDuration == 30
MaxDuration == 80

\* ------------------------------------------------------------- small helpers
None == <<>>
Some(x) == <<x>>

Min(a, b) == IF a < b THEN a ELSE b
Max(a, b) == IF a > b THEN a ELSE b

Last(s) == s[Len(s)]

\* Array.prototype.slice(0, end): a negative end counts from the back
Slice0(s, end) ==
  IF end >= 0 THEN SubSeq(s, 1, Min(end, Len(s)))
              ELSE SubSeq(s, 1, Max(Len(s) + end, 0))

\* ------------------------------------------------------------- paragraphs
P(lead, head, quote, img, src, n) ==
  [lead |-> lead, head |-> head, quote |-> quote, img |-> img, src |-> src, n |-> n]

ImgWords(img) == CASE img = "none" -> 0
                   [] img = "alt" -> 3
                   [] img = "quoted" -> 2
                   [] img = "bare" -> 2

\* text.trim().split(/\s+/).length; "" and a paragraph of tags only give 1
Words(p) ==
  LET w == p.n + (IF p.head = "hash" THEN 1 ELSE 0)
               + (IF p.quote = "gt" THEN 1 ELSE 0) + ImgWords(p.img)
  IN IF w = 0 THEN 1 ELSE w

\* the word counts of the paragraphs of a text, added up
RECURSIVE SumWords(_)
SumWords(s) == IF s = <<>> THEN 0 ELSE Words(s[1]) + SumWords(Tail(s))

\* text.trim()
TrimPiece(p) == [p EXCEPT !.lead = FALSE]
Trim(text) == IF text = <<>> THEN text ELSE <<TrimPiece(text[1])>> \o Tail(text)

\* /^<h[1-6]|^#{1,6}\s/.test(text.trim())
isHeading(p) == p.head # "none"

\* /^<blockquote|^>/.test(text.trim()) || text.includes('<blockquote')
isQuote(p) == p.quote # "none"

\* /<img[^>]*src/i.test(text)
hasImageInParagraph(p) == p.img # "none"

\* text.match(/<img[^>]*src=["']([^"']+)["'][^>]*>/i): a quoted src only
extractImageFromParagraph(p) ==
  IF p.img \in {"alt", "quoted"} THEN Some(p.src) ELSE None

\* text.match(/<img[^>]*alt=["']([^"']+)["'][^>]*>/i)
extractImageAlt(p) == IF p.img = "alt" THEN Some("alt text") ELSE None

\* replace(/<\/?h[1-6][^>]*>/gi,'').replace(/^#{1,6}\s/,'').trim(): the "#"
\* is removed only when it is the first character of the untrimmed text
cleanHeadingText(p) ==
  TrimPiece([p EXCEPT !.head = IF @ = "tag" \/ (@ = "hash" /\ ~p.lead)
                                THEN "none" ELSE @])

\* replace(/<\/?blockquote[^>]*>/gi,'').replace(/^>\s?/,'').trim(): the ">"
\* is removed only when it is the first character of the untrimmed text
cleanQuoteText(p) ==
  TrimPiece([p EXCEPT !.quote = IF @ = "tag" \/ (@ = "gt" /\ ~p.lead)
                                 THEN "none" ELSE @])

\* length in characters of the one line a piece is written on (words of four
\* letters, one space between words)
LineLength(p) ==
  (IF p.lead THEN 1 ELSE 0) + 5 * p.n
  + (CASE p.head = "tag" -> 9 [] p.head = "hash" -> 2 [] OTHER -> 0)
  + (CASE p.quote = "tag" -> 25 [] p.quote = "gt" -> 2 [] OTHER -> 0)
  + 12 * ImgWords(p.img)

\* first line of the chunk when it is short and the second line is longer
extractTitle(text) ==
  IF Len(text) > 1
     /\ LineLength(TrimPiece(text[1])) < 100
     /\ LineLength(text[2]) > LineLength(TrimPiece(text[1]))
  THEN Some(TrimPiece(text[1]))
  ELSE None

\* the paragraph shapes the inputs are drawn from
ParagraphKinds ==
  { P(FALSE, "none", "none", "none", "", 5),
    P(FALSE, "none", "none", "none", "", 30),
    P(FALSE, "none", "none", "none", "", 51),
    P(FALSE, "tag", "none", "none", "", 3),
    P(FALSE, "none", "tag", "none", "", 0),
    P(FALSE, "none", "tag", "none", "", 6),
    P(TRUE, "none", "gt", "none", "", 4),
    P(FALSE, "none", "none", "alt", "a.png", 5),
    P(FALSE, "none", "none", "bare", "c.png", 5),
    P(FALSE, "none", "tag", "quoted", "b.png", 2) }

RECURSIVE SeqsUpTo(_, _)
SeqsUpTo(S, n) ==
  IF n = 0 THEN {<<>>}
  ELSE LET shorter == SeqsUpTo(S, n - 1)
       IN shorter \cup {Append(s, x) : s \in {t \in shorter : Len(t) = n - 1}, x \in S}

\* cleanHTML trims the whole content: the first paragraph has no leading space
Contents == {c \in SeqsUpTo(ParagraphKinds, MaxParagraphs) : c = <<>> \/ ~c[1].lead}

\* ------------------------------------------------------------ segmentContent
PlainChunk(title, text) ==
  [title |-> title, text |-> text, image |-> None, imageAlt |-> None,
   hasImage |-> FALSE, isQuote |-> FALSE]

EmptyBuffer(st) == [st EXCEPT !.currentChunk = <<>>, !.chunkWordCount = 0]

Push(st, chunk) == [st EXCEPT !.chunks = Append(@, chunk)]

CloseBeforeHeadingNever(st, p) == st

\* lines 237-246: a heading closes the open chunk
CloseBeforeHeading(st, p) ==
  IF isHeading(p) /\ st.currentChunk # <<>>
  THEN EmptyBuffer(Push(st, PlainChunk(None, Trim(st.currentChunk))))
  ELSE st

CloseOnWordLimitNever(st, p) == st

\* lines 248-258: the word budget closes the open chunk
CloseOnWordLimit(st, p) ==
  IF st.chunkWordCount + Words(p) > maxWordsPerSlide /\ st.currentChunk # <<>>
  THEN EmptyBuffer(Push(st, PlainChunk(IF isHeading(p) THEN None
                                       ELSE extractTitle(st.currentChunk),
                                       Trim(st.currentChunk))))
  ELSE st

AddParagraphReplacing(st, p) ==
  [st EXCEPT !.currentChunk = <<p>>, !.chunkWordCount = @ + Words(p)]

\* lines 260-265: the paragraph joins the open chunk
AddParagraph(st, p) ==
  [st EXCEPT !.currentChunk = Append(@, p), !.chunkWordCount = @ + Words(p)]

\* lines 267-279: a quote or an image closes the chunk at once
CloseOnQuoteOrImage(st, p) ==
  IF isQuote(p) \/ hasImageInParagraph(p)
  THEN EmptyBuffer(Push(st,
         [title |-> IF isHeading(p) THEN Some(cleanHeadingText(p)) ELSE None,
          text |-> IF isQuote(p) THEN <<cleanQuoteText(p)>> ELSE Trim(st.currentChunk),
          image |-> IF hasImageInParagraph(p) THEN extractImageFromParagraph(p) ELSE None,
          imageAlt |-> IF hasImageInParagraph(p) THEN extractImageAlt(p) ELSE None,
          hasImage |-> hasImageInParagraph(p),
          isQuote |-> isQuote(p)]))
  ELSE st

\* one iteration of the for loop, lines 231-280
LoopBody(st, p) ==
  CloseOnQuoteOrImage(AddParagraph(CloseOnWordLimit(CloseBeforeHeading(st, p), p), p), p)

\* line 282: stop once the cap is reached
CapReached(cs, cap) == Len(cs) >= cap

AddLeftoverNever(st, cap) == st

AddLeftoverEvenEmpty(st, cap) ==
  IF Len(st.chunks) < cap
  THEN Push(st, PlainChunk(None, Trim(st.currentChunk)))
  ELSE st

\* lines 287-294: the leftover buffer becomes the final chunk
AddLeftover(st, cap) ==
  IF st.currentChunk # <<>> /\ Len(st.chunks) < cap
  THEN Push(st, PlainChunk(None, Trim(st.currentChunk)))
  ELSE st

ReturnChunksUncut(cs, cap) == cs

ReturnChunksKeepingLast(cs, cap) == SubSeq(cs, Max(Len(cs) - cap, 0) + 1, Len(cs))

\* line 296
ReturnChunks(cs, cap) == Slice0(cs, cap)

\* segmentContent as a function of the paragraphs: the loop from paragraph k on
RECURSIVE SegmentFrom(_, _, _, _)
SegmentFrom(st, content, k, cap) ==
  IF k > Len(content) THEN st
  ELSE LET next == LoopBody(st, content[k])
       IN IF CapReached(next.chunks, cap) THEN next
          ELSE SegmentFrom(next, content, k + 1, cap)

segmentContent(content, cap) ==
  ReturnChunks(AddLeftover(SegmentFrom([chunks |-> <<>>, currentChunk |-> <<>>,
                                        chunkWordCount |-> 0], content, 1, cap),
                           cap).chunks, cap)

\* --------------------------------------------------------------- the slides
TextWords(text) == IF text = <<>> THEN 1 ELSE SumWords(text)

calculateSlideDurationUncapped(text) == Max(BaseTime + TextWords(text), MinDuration)

\* calculateSlideDuration, in tenths of a second
calculateSlideDuration(text) ==
  Min(Max(BaseTime + TextWords(text), MinDuration), MaxDuration)

\* extractImages: every <img> of the content with a quoted src, in order
extractImages(content) ==
  LET F[k \in 0..Len(content)] ==
        IF k = 0 THEN <<>>
        ELSE F[k - 1] \o extractImageFromParagraph(content[k])
  IN F[Len(content)]

toStringOneDigit(k) == IF k < 10 THEN "1" ELSE "2"

DecimalDigits == <<"0", "1", "2", "3", "4", "5", "6", "7", "8", "9">>

\* Number.prototype.toString for 0..99
toString(k) ==
  IF k < 10 THEN DecimalDigits[k + 1]
  ELSE DecimalDigits[(k \div 10) + 1] \o DecimalDigits[(k % 10) + 1]

\* ------------------------------------------------------ templates and config
\* a colour: a plain CSS colour ("" when not given), or the gradient
\* linear-gradient(<deg>deg, ..)
Plain(css) == [gradient |-> FALSE, deg |-> 0, css |-> css]
Gradient(deg) == [gradient |-> TRUE, deg |-> deg, css |-> "linear-gradient"]

Config(backgroundColor, textColor, accentColor) ==
  [backgroundColor |-> backgroundColor, textColor |-> textColor,
   accentColor |-> accentColor, fontFamily |-> "Inter",
   animations |-> <<"fade-in", "fly-in-left">>]

Template(id, name, config) == [id |-> id, name |-> name, category |-> "news", config |-> config]

DefaultTemplate ==
  Template("minimal", "Minimal", Config(Gradient(135), "#ffffff", Plain("#ffd700")))

\* { ...this.template.config, ...customizations }: a fresh object, line 82
Merge(base, customizations) ==
  [k \in DOMAIN base \cup DOMAIN customizations |->
     IF k \in DOMAIN customizations THEN customizations[k] ELSE base[k]]

\* the config of the running call
config == Merge(template[1].config, options.customizations)

\* baseColor.replace('135deg', deg)
ReplaceDeg(baseColor, deg) == IF baseColor.deg = 135 THEN Gradient(deg) ELSE baseColor

\* getVariantColor, index from 0
getVariantColor(baseColor, index) ==
  IF ~baseColor.gradient THEN baseColor
  ELSE <<baseColor, ReplaceDeg(baseColor, 45), ReplaceDeg(baseColor, 225),
         ReplaceDeg(baseColor, 315)>>[(index % 4) + 1]

\* a || b on colours: the empty string is falsy
OrElse(a, b) == IF a.css # "" THEN a ELSE b

\* ---------------------------------------------------------- generateExcerpt
\* generateExcerpt(content, maxLength = 160), line 416
DefaultMaxLength == 160

\* A string is the sequence of its characters here.
Terminators == {".", "!", "?"}
WhiteSpace == {" ", "\n"}

RECURSIVE trimStart(_)
trimStart(s) ==
  IF s # <<>> /\ s[1] \in WhiteSpace THEN trimStart(Tail(s)) ELSE s

RECURSIVE trimEnd(_)
trimEnd(s) ==
  IF s # <<>> /\ s[Len(s)] \in WhiteSpace THEN trimEnd(SubSeq(s, 1, Len(s) - 1)) ELSE s

\* String.prototype.trim
trim(s) == trimEnd(trimStart(s))

\* the pieces of s between terminators, from character k on: the maximal
\* runs of characters that are no terminators; split(/[.!?]+/) gives these
\* and, at either end of s, an empty piece that the filter drops
RECURSIVE SplitFrom(_, _)
SplitFrom(s, k) ==
  LET starts == {a \in k..Len(s) : s[a] \notin Terminators}
  IN IF starts = {} THEN <<>>
     ELSE LET a == CHOOSE x \in starts : \A y \in starts : x <= y
              ends == {e \in a..Len(s) : e = Len(s) \/ s[e + 1] \in Terminators}
              e == CHOOSE x \in ends : \A y \in ends : x <= y
          IN <<SubSeq(s, a, e)>> \o SplitFrom(s, e + 1)

NotBlank(s) == trim(s) # <<>>

\* cleanContent.split(/[.!?]+/).filter(s => s.trim().length > 0), line 418
Sentences(clean) == SelectSeq(SplitFrom(clean, 1), NotBlank)

\* line 422: (excerpt + sentence).length > maxLength
TooLong(exc, sentence, max) == Len(exc \o sentence) > max

\* line 425: excerpt += sentence + '. '
WithSentence(exc, sentence) == exc \o sentence \o <<".", " ">>

\* String.prototype.substring(0, end)
Substring0(s, end) == SubSeq(s, 1, Min(Max(end, 0), Len(s)))

\* line 428: excerpt.trim() || cleanContent.substring(0, maxLength) + '...'
ExcerptOrStart(exc, clean, max) ==
  IF trim(exc) # <<>> THEN trim(exc)
  ELSE Substring0(clean, max) \o <<".", ".", ".">>

\* the loop of lines 421-426 over the sentences that are left
RECURSIVE Accumulate(_, _, _)
Accumulate(exc, sents, max) ==
  IF sents = <<>> \/ TooLong(exc, sents[1], max) THEN exc
  ELSE Accumulate(WithSentence(exc, sents[1]), Tail(sents), max)

\* generateExcerpt lines 416-429, of content that cleanHTML has cleaned
generateExcerpt(clean, max) ==
  ExcerptOrStart(Accumulate(<<>>, Sentences(clean), max), clean, max)

\* the characters of a piece of text, as the head of the module writes it
WordChars == <<"w", "o", "r", "d">>

RECURSIVE WordsChars(_)
WordsChars(n) ==
  IF n = 0 THEN <<>>
  ELSE IF n = 1 THEN WordChars
  ELSE WordChars \o <<" ">> \o WordsChars(n - 1)

SrcChars(src) ==
  CASE src = "a.png" -> <<"a", ".", "p", "n", "g">>
    [] src = "b.png" -> <<"b", ".", "p", "n", "g">>
    [] src = "c.png" -> <<"c", ".", "p", "n", "g">>
    [] OTHER -> <<>>

ImgChars(p) ==
  LET tag == <<"<", "i", "m", "g", " ", "s", "r", "c", "=">>
      url == SrcChars(p.src)
  IN CASE p.img = "none" -> <<>>
       [] p.img = "alt" -> tag \o <<"\"">> \o url \o <<"\"", " ", "a", "l", "t", "=", "\"",
                             "a", "l", "t", " ", "t", "e", "x", "t", "\"", ">">>
       [] p.img = "quoted" -> tag \o <<"\"">> \o url \o <<"\"", ">">>
       [] p.img = "bare" -> tag \o url \o <<">">>

PieceChars(p) ==
  (IF p.lead THEN <<" ">> ELSE <<>>)
  \o (CASE p.head = "hash" -> <<"#", " ">>
        [] p.head = "tag" -> <<"<", "h", "2", ">">>
        [] OTHER -> <<>>)
  \o (CASE p.quote = "gt" -> <<">", " ">>
        [] p.quote = "tag" -> <<"<", "b", "l", "o", "c", "k", "q", "u", "o", "t", "e", ">">>
        [] OTHER -> <<>>)
  \o WordsChars(p.n)
  \o ImgChars(p)
  \o (IF p.quote = "tag"
      THEN <<"<", "/", "b", "l", "o", "c", "k", "q", "u", "o", "t", "e", ">">> ELSE <<>>)
  \o (IF p.head = "tag" THEN <<"<", "/", "h", "2", ">">> ELSE <<>>)

\* the cleaned content: its paragraphs with a blank line between them
RECURSIVE CleanChars(_)
CleanChars(text) ==
  IF text = <<>> THEN <<>>
  ELSE IF Len(text) = 1 THEN PieceChars(text[1])
  ELSE PieceChars(text[1]) \o <<"\n", "\n">> \o CleanChars(Tail(text))

\* createTitleSlide lines 104-124; subtitle: postData.excerpt ||
\* this.generateExcerpt(postData.content), an absent excerpt being the empty
\* one; style.animation, a random pick among the animations of the config,
\* is left out
SubtitleAlwaysExcerpt(post) == post.excerpt

\* line 110
Subtitle(post) ==
  IF post.excerpt # <<>> THEN post.excerpt
  ELSE generateExcerpt(CleanChars(post.content), DefaultMaxLength)

createTitleSlide(post, cfg) ==
  [id |-> "1", type |-> "title",
   content |-> [title |-> Some(post.title), subtitle |-> Some(Subtitle(post)),
                text |-> None, image |-> post.featuredImage,
                imageAlt |-> None, quote |-> None, author |-> None,
                buttonText |-> None, buttonUrl |-> None],
   style |-> [backgroundColor |-> cfg.backgroundColor, textColor |-> cfg.textColor,
              accentColor |-> cfg.accentColor, fontFamily |-> cfg.fontFamily,
              duration |-> TitleDuration, textAlign |-> "center"],
   layout |-> "fill"]

SlideTypeImageFirst(chunk, images) ==
  IF chunk.hasImage /\ Len(images) > 0 THEN "image"
  ELSE IF chunk.isQuote THEN "quote"
  ELSE "content"

\* lines 138-144
SlideType(chunk, images) ==
  IF chunk.isQuote THEN "quote"
  ELSE IF chunk.hasImage /\ Len(images) > 0 THEN "image"
  ELSE "content"

\* chunk.image || (images[index % images.length] || undefined), index from 0
SlideImage(chunk, images, index) ==
  IF chunk.image # None THEN chunk.image
  ELSE IF Len(images) > 0 THEN Some(images[(index % Len(images)) + 1])
  ELSE None

\* lines 135-170, the slide of the chunk at (0-based) index
ContentSlide(chunk, images, index, post, cfg) ==
  LET slideType == SlideType(chunk, images)
  IN [id |-> toString(index + 2), type |-> slideType,
      content |-> [title |-> chunk.title, subtitle |-> None, text |-> Some(chunk.text),
                   image |-> SlideImage(chunk, images, index),
                   imageAlt |-> chunk.imageAlt,
                   quote |-> IF chunk.isQuote THEN Some(chunk.text) ELSE None,
                   author |-> IF chunk.isQuote THEN Some(post.author) ELSE None,
                   buttonText |-> None, buttonUrl |-> None],
      style |-> [backgroundColor |-> getVariantColor(cfg.backgroundColor, index),
                 textColor |-> cfg.textColor, accentColor |-> cfg.accentColor,
                 fontFamily |-> cfg.fontFamily,
                 duration |-> calculateSlideDuration(chunk.text),
                 textAlign |-> IF slideType = "quote" THEN "center" ELSE "left"],
      layout |-> IF slideType = "image" THEN "fill" ELSE "responsive"]

\* createContentSlides after the segmentation, lines 131-172
createContentSlides(post, cfg, contentChunks, cap) ==
  LET images == extractImages(post.content)
      all == [k \in 1..Len(contentChunks) |->
                ContentSlide(contentChunks[k], images, k - 1, post, cfg)]
  IN Slice0(all, cap)

createCTASlide(post, cfg, ctaText, ctaUrl) ==
  [id |-> "cta", type |-> "cta",
   content |-> [title |-> Some(<<"Learn More About ">> \o post.title),
                subtitle |-> Some(<<"Continue reading the full article for more insights">>),
                text |-> None, image |-> None, imageAlt |-> None, quote |-> None,
                author |-> None, buttonText |-> Some(ctaText), buttonUrl |-> Some(ctaUrl)],
   style |-> [backgroundColor |-> OrElse(cfg.accentColor, cfg.backgroundColor),
              textColor |-> cfg.textColor, accentColor |-> cfg.backgroundColor,
              fontFamily |-> cfg.fontFamily,
              duration |-> CTADuration, textAlign |-> "center"],
   layout |-> "fill"]

ChunkBudgetForgetsCTA(opts) ==
  opts.maxSlides - (IF opts.includeTitle THEN 1 ELSE 0)

ChunkBudgetForgetsTitle(opts) ==
  opts.maxSlides - (IF opts.includeCTA THEN 1 ELSE 0)

\* line 90: the chunk budget handed to createContentSlides
ChunkBudget(opts) ==
  opts.maxSlides - (IF opts.includeTitle THEN 1 ELSE 0)
                 - (IF opts.includeCTA THEN 1 ELSE 0)

\* ------------------------------------------------------------ state machine
Post(content) ==
  [title |-> <<"Hello World">>, content |-> content, excerpt |-> <<"An excerpt">>,
   featuredImage |-> None, author |-> <<"author">>]

Posts == {Post(c) : c \in Contents}

\* the options after the defaults of lines 71-78
Option(maxSlides, includeTitle, includeCTA, ctaUrl, customizations) ==
  [maxSlides |-> maxSlides, includeTitle |-> includeTitle, includeCTA |-> includeCTA,
   ctaText |-> <<"Read Full Article">>, ctaUrl |-> ctaUrl, customizations |-> customizations]

NoCustomizations == <<>>

Options ==
  {Option(m, t, c, <<"#">>, NoCustomizations) : m \in 1..MaxSlidesOption, t \in BOOLEAN, c \in BOOLEAN}

DefaultMetadata ==
  [title |-> <<"Hello World">>, description |-> <<"A post">>, author |-> <<"author">>,
   publisherName |-> <<"Publisher">>, publisherLogo |-> <<"logo.png">>,
   canonicalUrl |-> <<"https://example.com/post">>]

SegState == [chunks |-> chunks, currentChunk |-> currentChunk,
             chunkWordCount |-> chunkWordCount]

\* no call of generateExcerpt under way
ExcerptIdle ==
  /\ cleanContent = <<>>
  /\ maxLength = DefaultMaxLength
  /\ sentences = <<>>
  /\ excerpt = <<>>
  /\ returned = None

\* no hook mounted, no story loaded
PageIdle ==
  /\ sockets = <<>>
  /\ wsRef = 0
  /\ timers = {}
  /\ disconnected = FALSE
  /\ story = <<>>
  /\ currentSlideIndex = 0
  /\ pendingSlides = None

InitWith(posts, opts) ==
  /\ postData \in posts
  /\ options \in opts
  /\ pc = "start"
  /\ slides = <<>>
  /\ maxChunks = 0
  /\ i = 1
  /\ chunks = <<>>
  /\ currentChunk = <<>>
  /\ chunkWordCount = 0
  /\ templates = <<DefaultTemplate>>
  /\ templateId = DefaultTemplate.id
  /\ template = Some(DefaultTemplate)
  /\ thrown = None
  /\ metadata = DefaultMetadata
  /\ ampHTML = None
  /\ validation = None
  /\ calls = 1
  /\ PageIdle
  /\ ExcerptIdle

Init == InitWith(Posts, Options)

GenerateStoryStoringConfig ==
  /\ pc = "start"
  /\ slides' = IF options.includeTitle THEN <<createTitleSlide(postData, config)>> ELSE <<>>
  /\ maxChunks' = ChunkBudget(options)
  /\ pc' = IF postData.content = <<>> THEN "leftover" ELSE "loop"
  /\ template' = Some([template[1] EXCEPT !.config = config])
  /\ UNCHANGED <<postData, options, i, chunks, currentChunk, chunkWordCount,
                 templates, templateId, thrown, metadata, ampHTML, validation, calls, page, excerptCall>>

\* generateStory lines 79-90 up to the call of segmentContent (line 130)
GenerateStory ==
  /\ pc = "start"
  /\ slides' = IF options.includeTitle THEN <<createTitleSlide(postData, config)>> ELSE <<>>
  /\ maxChunks' = ChunkBudget(options)
  /\ pc' = IF postData.content = <<>> THEN "leftover" ELSE "loop"
  /\ UNCHANGED <<around, postData, options, i, chunks, currentChunk, chunkWordCount>>

\* one iteration of the loop of segmentContent, with its break
SegmentLoop ==
  /\ pc = "loop"
  /\ LET st == LoopBody(SegState, postData.content[i])
     IN /\ chunks' = st.chunks
        /\ currentChunk' = st.currentChunk
        /\ chunkWordCount' = st.chunkWordCount
        /\ IF CapReached(st.chunks, maxChunks) \/ i = Len(postData.content)
           THEN pc' = "leftover" /\ i' = i
           ELSE pc' = "loop" /\ i' = i + 1
  /\ UNCHANGED <<around, postData, options, slides, maxChunks>>

\* segmentContent lines 287-296
SegmentReturn ==
  /\ pc = "leftover"
  /\ chunks' = ReturnChunks(AddLeftover(SegState, maxChunks).chunks, maxChunks)
  /\ pc' = "slides"
  /\ UNCHANGED <<around, postData, options, slides, maxChunks, i, currentChunk, chunkWordCount>>

\* createContentSlides lines 131-172 and generateStory line 91
CreateContentSlides ==
  /\ pc = "slides"
  /\ slides' = slides \o createContentSlides(postData, config, chunks, maxChunks)
  /\ pc' = "cta"
  /\ UNCHANGED <<around, postData, options, maxChunks, i, chunks, currentChunk, chunkWordCount>>

ReturnStoryAlwaysCTA ==
  /\ pc = "cta"
  /\ slides' = Append(slides, createCTASlide(postData, config, options.ctaText, options.ctaUrl))
  /\ pc' = "done"
  /\ UNCHANGED <<around, postData, options, maxChunks, i, chunks, currentChunk, chunkWordCount>>

\* generateStory lines 93-98
ReturnStory ==
  /\ pc = "cta"
  /\ slides' = IF options.includeCTA THEN Append(slides, createCTASlide(postData, config, options.ctaText, options.ctaUrl)) ELSE slides
  /\ pc' = "done"
  /\ UNCHANGED <<around, postData, options, maxChunks, i, chunks, currentChunk, chunkWordCount>>

Next == GenerateStory \/ SegmentLoop \/ SegmentReturn \/ CreateContentSlides \/ ReturnStory

Spec == Init /\ [][Next]_vars

\* ---------------------------------------------------------------- properties
content == postData.content

FixedSlides == (IF options.includeTitle THEN 1 ELSE 0) + (IF options.includeCTA THEN 1 ELSE 0)

Segmented == pc \in {"slides", "cta", "done"}

\* index of the paragraph the loop consumed last (0 before the first)
LastConsumed ==
  IF content = <<>> THEN 0
  ELSE IF pc = "loop" THEN i - 1
  ELSE IF pc = "start" THEN 0
  ELSE i

TotalWords(text) == SumWords(text)

IsPlain(chunk) == ~chunk.isQuote /\ ~chunk.hasImage

\* C1 as stated: the story never has more than maxSlides slides.
C1_AtMostMaxSlides == pc = "done" => Len(slides) <= options.maxSlides

\* C1 amended: the story has at most maxSlides slides, or just the enabled
\* title and CTA slides when maxSlides is smaller than their number.
C1_AtMostMaxSlidesOrFixed ==
  pc = "done" => Len(slides) <= Max(options.maxSlides, FixedSlides)

\* a story cut to exactly maxSlides although paragraphs were left unread
C1_Witness ==
  /\ pc = "done"
  /\ Len(slides) = options.maxSlides
  /\ options.maxSlides > FixedSlides
  /\ i < Len(content)

\* C2: a title slide iff includeTitle, one only and first; a cta slide iff
\* includeCTA, one only and last; every other slide is content, quote or image.
C2_TitleFirstCTALast ==
  pc = "done" =>
    /\ (\E k \in 1..Len(slides) : slides[k].type = "title") <=> options.includeTitle
    /\ (\E k \in 1..Len(slides) : slides[k].type = "cta") <=> options.includeCTA
    /\ \A k \in 1..Len(slides) :
         /\ slides[k].type = "title" => k = 1
         /\ slides[k].type = "cta" => k = Len(slides)
         /\ slides[k].type \in {"title", "cta", "content", "quote", "image"}

\* title, then a quote and an image slide, then the CTA
C2_Witness ==
  /\ pc = "done"
  /\ options.includeTitle /\ options.includeCTA
  /\ Len(slides) >= 4
  /\ slides[1].type = "title"
  /\ slides[Len(slides)].type = "cta"
  /\ \E k \in 2..Len(slides) - 1 : slides[k].type = "quote"
  /\ \E k \in 2..Len(slides) - 1 : slides[k].type = "image"

\* C3 as stated: segmentContent returns at most maxChunks chunks, whatever
\* maxChunks is.
C3_AtMostMaxChunks == Segmented => Len(chunks) <= maxChunks

\* C3 amended: for maxChunks >= 0 segmentContent returns at most maxChunks
\* chunks, and for a negative maxChunks it returns none.
C3_AtMostMaxChunksOrNone == Segmented => Len(chunks) <= Max(maxChunks, 0)

\* the last iteration pushed the closed buffer and then a quote or image chunk,
\* and the second of the two was cut off
C3_Witness ==
  /\ pc = "slides"
  /\ maxChunks >= 1
  /\ Len(chunks) = maxChunks
  /\ isQuote(content[i]) \/ hasImageInParagraph(content[i])
  /\ IsPlain(chunks[Len(chunks)])

\* the chunks a step added to the list
Added == {k \in 1..Len(chunks') : k > Len(chunks)}

\* C4: a chunk that is neither a quote nor an image chunk and was not closed
\* by a following heading (closed by the word budget, or the final leftover)
\* has at most 50 words.
C4_PlainChunkWithinBudget ==
  [][(\/ pc = "loop" /\ ~isHeading(content[i])
      \/ pc = "leftover")
     => \A k \in Added : IsPlain(chunks'[k]) => TextWords(chunks'[k].text) <= maxWordsPerSlide]_vars

\* C5 as stated: the story is never empty.
C5_NeverEmpty == pc = "done" => Len(slides) >= 1

\* C5 amended: with maxSlides >= 1 the story is empty only when the title and
\* the CTA are both disabled and the content has no paragraph.
C5_EmptyOnlyWithoutInput ==
  pc = "done" =>
    (Len(slides) >= 1 <=> (options.includeTitle \/ options.includeCTA \/ content # <<>>))

\* neither title nor CTA, and the content alone yields the slides
C5_Witness ==
  /\ pc = "done"
  /\ ~options.includeTitle /\ ~options.includeCTA
  /\ Len(content) >= 2
  /\ Len(slides) = 1
  /\ slides[1].type = "content"

OnePlainChunkOfAll ==
  /\ Len(chunks) = 1
  /\ IsPlain(chunks[1])
  /\ chunks[1].text = content

\* C6 as stated: content of fewer than 50 words in total gives one plain
\* chunk holding all paragraphs in order.
C6_UnderBudgetOneChunk ==
  (Segmented /\ maxChunks >= 1 /\ TotalWords(content) < maxWordsPerSlide)
    => OnePlainChunkOfAll

NoTrigger ==
  \A k \in 1..Len(content) :
    /\ ~isQuote(content[k])
    /\ ~hasImageInParagraph(content[k])
    /\ isHeading(content[k]) => k = 1

\* C6 amended: non-empty content of at most 50 words in total, without a
\* quote or image paragraph and without a heading after the first paragraph,
\* gives one plain chunk holding all paragraphs in order.
C6_PlainUnderBudgetOneChunk ==
  (Segmented /\ maxChunks >= 1 /\ content # <<>> /\ NoTrigger
   /\ TotalWords(content) <= maxWordsPerSlide)
    => OnePlainChunkOfAll

\* three paragraphs merged into the one chunk
C6_Witness ==
  /\ pc = "slides"
  /\ maxChunks >= 1
  /\ Len(content) = 3
  /\ NoTrigger
  /\ TotalWords(content) <= maxWordsPerSlide
  /\ OnePlainChunkOfAll

\* the paragraph without its blockquote markers
WithoutQuoteMarkers(p) == [p EXCEPT !.quote = "none", !.lead = FALSE]

\* C7: a consumed quote paragraph closes the chunk in its iteration: the last
\* chunk is a quote chunk holding the paragraph without its blockquote
\* markers, and the buffer is empty.
C7_QuoteClosesChunk ==
  (pc \in {"loop", "leftover"} /\ LastConsumed >= 1 /\ isQuote(content[LastConsumed]))
    => /\ currentChunk = <<>>
       /\ chunks # <<>>
       /\ Last(chunks).isQuote
       /\ Last(chunks).text = <<WithoutQuoteMarkers(content[LastConsumed])>>

\* C8: a consumed paragraph with an image closes the chunk in its iteration:
\* the last chunk has hasImage, the paragraph's image URL (and alt text), and
\* unless it is a quote its text ends with the paragraph.
C8_ImageClosesChunk ==
  (pc \in {"loop", "leftover"} /\ LastConsumed >= 1
   /\ hasImageInParagraph(content[LastConsumed]))
    => LET p == content[LastConsumed]
       IN /\ currentChunk = <<>>
          /\ chunks # <<>>
          /\ Last(chunks).hasImage
          /\ Last(chunks).image = Some(p.src)
          /\ p.img = "alt" => Last(chunks).imageAlt # None
          /\ ~isQuote(p) => TrimPiece(Last(Last(chunks).text)) = TrimPiece(p)

\* the chunks of the whole content when no cap stops the loop
UncappedChunks(c) == segmentContent(c, 2 * Len(c) + 1)

StoryShape(n) ==
  /\ Len(slides) = n
  /\ slides[1].type = "title"
  /\ slides[n].type = "cta"
  /\ \A k \in 2..n - 1 : slides[k].type \in {"content", "quote", "image"}

\* C9 as stated: maxSlides = 5 with title and CTA and at least 10 paragraphs
\* gives exactly 5 slides: title, three of content/quote/image, cta.
C9_FiveSlides == pc = "done" => StoryShape(5)

\* C9 amended: it gives the title, min(3, c) slides of content/quote/image
\* and the cta, c >= 1 being the number of chunks the paragraphs form under
\* the word budget: 5 slides only when they form at least three chunks.
C9_TwoPlusChunkSlides ==
  pc = "done" =>
    /\ Len(UncappedChunks(content)) >= 1
    /\ StoryShape(2 + Min(3, Len(UncappedChunks(content))))

\* ten paragraphs, more than three chunks, five slides
C9_Witness ==
  /\ pc = "done"
  /\ Len(content) >= 10
  /\ Len(UncappedChunks(content)) > 3
  /\ StoryShape(5)

\* C10: every slide lasts between 3 and 8 seconds: the title slide 6, the CTA
\* slide 5, the others the clamped reading time of their text.
C10_DurationInRange ==
  pc = "done" =>
    \A k \in 1..Len(slides) :
      LET s == slides[k]
          d == s.style.duration
      IN /\ 30 <= d /\ d <= 80
         /\ s.type = "title" => d = 60
         /\ s.type = "cta" => d = 50
         /\ s.type \in {"content", "quote", "image"} =>
              LET w == TotalWords(s.content.text[1])
              IN d = IF 30 + w > 80 THEN 80 ELSE 30 + w

\* a story with a slide at the 8 second cap and one below it
C10_Witness ==
  /\ pc = "done"
  /\ \E k \in 1..Len(slides) :
       /\ slides[k].type = "content"
       /\ slides[k].style.duration = 80
       /\ TotalWords(slides[k].content.text[1]) > 50
  /\ \E k \in 1..Len(slides) :
       /\ slides[k].type = "quote"
       /\ slides[k].style.duration \in 31..79
  /\ slides[1].style.duration = 60
  /\ slides[Len(slides)].style.duration = 50

\* ------------------------------------------------- the ten-paragraph scenario
ManyKinds ==
  { P(FALSE, "none", "none", "none", "", 5),
    P(FALSE, "none", "none", "none", "", 30),
    P(FALSE, "none", "tag", "none", "", 6) }

ManyContents == {c \in SeqsUpTo(ManyKinds, ManyParagraphs) : Len(c) = ManyParagraphs}

InitMany ==
  InitWith({Post(c) : c \in ManyContents}, {Option(5, TRUE, TRUE, <<"#">>, NoCustomizations)})

SpecMany == InitMany /\ [][Next]_vars

\* ----------------------------------------------------- properties, C11 to C20
\* the empty string: what cleanQuoteText leaves of <blockquote></blockquote>
IsEmptyText(p) == p.n = 0 /\ p.head = "none" /\ p.quote = "none" /\ p.img = "none"

\* the number of words of a text, 0 for the empty text
WordCount(text) ==
  IF \A k \in 1..Len(text) : IsEmptyText(text[k]) THEN 0 ELSE SumWords(text)

ChunkSlides == {k \in 1..Len(slides) : slides[k].type \in {"content", "quote", "image"}}

\* C11: the duration of a text is clamp(3 + 0.1 * wordCount, 3, 8), wordCount
\* being the number of words of the text, 0 for an empty text.
C11_DurationOfWordCount ==
  pc = "done" =>
    \A k \in ChunkSlides :
      slides[k].style.duration = Min(Max(30 + WordCount(slides[k].content.text[1]), 30), 80)

\* C12: for empty content the story is exactly the title slide (if enabled)
\* followed by the CTA slide (if enabled).
C12_EmptyContentTitleAndCTAOnly ==
  (pc = "done" /\ content = <<>>) =>
    /\ Len(slides) = FixedSlides
    /\ ChunkSlides = {}
    /\ options.includeTitle => slides[1].type = "title"
    /\ options.includeCTA => slides[Len(slides)].type = "cta"

\* empty content, title and CTA enabled: the two slides
C12_Witness ==
  /\ pc = "done"
  /\ content = <<>>
  /\ options.includeTitle /\ options.includeCTA
  /\ options.maxSlides >= 3
  /\ Len(slides) = 2

\* number of slides before the first slide built from a chunk
TitleOffset == IF options.includeTitle THEN 1 ELSE 0

\* at least one image with a quoted src exists anywhere in the post
PostHasImage == \E k \in 1..Len(content) : content[k].img \in {"alt", "quoted"}

\* C19: the slide built from a chunk has type quote when the chunk is a quote
\* (even when it also carries an image), otherwise type image when the chunk is
\* image-bearing and the image list of the post is not empty, otherwise content.
C19_SlideTypeOfChunk ==
  pc \in {"cta", "done"} =>
    \A k \in 1..Len(chunks) :
      slides[TitleOffset + k].type =
        IF chunks[k].isQuote THEN "quote"
        ELSE IF chunks[k].hasImage /\ PostHasImage THEN "image"
        ELSE "content"

\* a quote chunk carrying an image became a quote slide, an image-bearing chunk
\* that is no quote became an image slide
C19_Witness ==
  /\ pc = "done"
  /\ \E k \in 1..Len(chunks) :
       chunks[k].isQuote /\ chunks[k].hasImage /\ slides[TitleOffset + k].type = "quote"
  /\ \E k \in 1..Len(chunks) :
       ~chunks[k].isQuote /\ chunks[k].hasImage /\ slides[TitleOffset + k].type = "image"

\* the decimal strings of 1, 2, 3, ...
DecimalOf == <<"1", "2", "3", "4", "5", "6", "7", "8", "9", "10", "11", "12">>

\* C20: the title slide has id "1", the k-th slide built from a chunk (k from
\* 0) has the decimal string of k + 2 as id, the CTA slide has id "cta"; the ids
\* of one story are pairwise distinct.
C20_SlideIds ==
  pc = "done" =>
    /\ options.includeTitle => slides[1].id = "1"
    /\ \A k \in 0..(Len(chunks) - 1) : slides[TitleOffset + k + 1].id = DecimalOf[k + 2]
    /\ options.includeCTA => slides[Len(slides)].id = "cta"
    /\ \A a, b \in 1..Len(slides) : a # b => slides[a].id # slides[b].id

\* a story of a title slide, three chunk slides and no CTA slide
C20_Witness ==
  /\ pc = "done"
  /\ options.includeTitle
  /\ Len(chunks) = 3
  /\ [k \in 1..Len(slides) |-> slides[k].id] = <<"1", "2", "3", "4">>

\* ------------------------------------------------------ createStoryGenerator
MaxTemplates == 3

TemplatePool ==
  { Template("minimal", "Minimal", Config(Gradient(135), "#ffffff", Plain("#ffd700"))),
    Template("minimal", "Minimal Dark", Config(Plain("#000000"), "#eeeeee", Plain(""))),
    Template("bold", "Bold", Config(Gradient(90), "#ffffff", Plain("#ff0000"))),
    Template("bold", "Bold Dark", Config(Plain("#111111"), "#ffffff", Plain("#00ff00"))) }

TemplateIds == {"minimal", "bold", "modern"}

findLast(ts, id) ==
  LET hits == {k \in 1..Len(ts) : ts[k].id = id}
  IN IF hits = {} THEN None ELSE Some(ts[CHOOSE k \in hits : \A j \in hits : j <= k])

\* templates.find(t => t.id === templateId): the first match, or undefined
find(ts, id) ==
  LET hits == {k \in 1..Len(ts) : ts[k].id = id}
  IN IF hits = {} THEN None ELSE Some(ts[CHOOSE k \in hits : \A j \in hits : k <= j])

InitCreate ==
  /\ postData = Post(<<P(FALSE, "none", "none", "none", "", 5)>>)
  /\ options = Option(3, TRUE, TRUE, <<"#">>, NoCustomizations)
  /\ pc = "create"
  /\ slides = <<>>
  /\ maxChunks = 0
  /\ i = 1
  /\ chunks = <<>>
  /\ currentChunk = <<>>
  /\ chunkWordCount = 0
  /\ templates \in SeqsUpTo(TemplatePool, MaxTemplates)
  /\ templateId \in TemplateIds
  /\ template = None
  /\ thrown = None
  /\ metadata = DefaultMetadata
  /\ ampHTML = None
  /\ validation = None
  /\ calls = 1
  /\ PageIdle
  /\ ExcerptIdle

\* createStoryGenerator lines 689-696: the throw, or new WebStoryGenerator(template)
CreateStoryGenerator ==
  /\ pc = "create"
  /\ LET found == find(templates, templateId)
     IN IF found = None
        THEN /\ thrown' = Some(<<"Template with ID ", templateId, " not found">>)
             /\ pc' = "failed"
             /\ UNCHANGED template
        ELSE /\ template' = found
             /\ pc' = "start"
             /\ UNCHANGED thrown
  /\ UNCHANGED <<postData, options, slides, maxChunks, i, chunks, currentChunk,
                 chunkWordCount, templates, templateId, metadata, ampHTML, validation, calls, page, excerptCall>>

NextCreate == CreateStoryGenerator \/ Next

SpecCreate == InitCreate /\ [][NextCreate]_vars

Matches == {k \in 1..Len(templates) : templates[k].id = templateId}

\* C13: createStoryGenerator fails, with an error naming templateId, exactly
\* when no template of the list has that id; otherwise the generator is bound
\* to the first template of the list with that id.
C13_NotFoundIffNoMatch ==
  pc # "create" =>
    /\ thrown # None <=> Matches = {}
    /\ thrown # None => thrown[1][2] = templateId /\ template = None /\ pc = "failed"
    /\ thrown = None =>
         \E k \in Matches :
           /\ \A j \in 1..(k - 1) : templates[j].id # templateId
           /\ template = Some(templates[k])
           /\ pc = "done" /\ options.includeTitle =>
                slides[1].style.backgroundColor = templates[k].config.backgroundColor

\* two different templates carry the id, after one that does not: the
\* generator is bound to the first of the two and has produced a story
C13_Witness ==
  /\ pc = "done"
  /\ Len(templates) = 3
  /\ templates[1].id # templateId
  /\ templates[2].id = templateId
  /\ templates[3].id = templateId
  /\ templates[2] # templates[3]
  /\ template = Some(templates[2])
  /\ thrown = None

\* ----------------------------------------------------------- validateAMPHTML
\* A document is a sequence of fragments [field, raw, text]: field is "shell"
\* for a piece of the renderer's template literal (or of a hand-written
\* document) and the name of the interpolated field otherwise, raw is the
\* value before escaping and text what stands in the document; raw and text
\* are sequences of tokens.
MaxFragments == 4

Shell(token) == [field |-> "shell", raw |-> <<token>>, text |-> <<token>>]

\* the substrings validateAMPHTML looks for that a token of the model contains
Within(token) ==
  CASE token = "<html ⚡ lang=\"en\">" -> {"⚡"}
    [] token = "<html amp>" -> {"amp"}
    [] token = "<link rel=\"canonical\" href=\"" -> {"canonical"}
    [] token = "<meta name=\"viewport\" content=\"width=device-width\">" -> {"viewport"}
    [] token = "<style amp-boilerplate>" -> {"amp"}
    [] token = "<script async src=\"https://cdn.ampproject.org/v0.js\">" -> {"amp"}
    [] token = "<script async custom-element=\"amp-story\">" -> {"amp", "amp-story"}
    [] token = "<script type=\"application/ld+json\">" -> {"application/ld+json"}
    [] token = "<amp-story standalone" -> {"amp", "amp-story"}
    [] token = "<amp-story-page id=\"slide-" -> {"amp", "amp-story"}
    [] token = "<amp-story-grid-layer>" -> {"amp", "amp-story"}
    [] token = "<amp-img src=\"" -> {"amp"}
    [] token = "<amp-story-auto-ads>" -> {"amp", "amp-story"}
    [] token = "&amp;" -> {"amp"}
    [] OTHER -> {}

\* ampHTML.includes(marker)
includes(doc, marker) ==
  \E k \in 1..Len(doc) : \E j \in 1..Len(doc[k].text) : marker \in Within(doc[k].text[j])

\* the elements of s, in order, for which keep holds
Pushed(s, keep) ==
  LET F[k \in 0..Len(s)] ==
        IF k = 0 THEN <<>>
        ELSE IF keep[k] THEN Append(F[k - 1], s[k]) ELSE F[k - 1]
  IN F[Len(s)]

validateAMPHTMLViewportWarning(doc) ==
  LET errors == Pushed(<<"Missing AMP attribute in html tag", "Missing amp-story component">>,
                       <<~includes(doc, "⚡") /\ ~includes(doc, "amp"),
                         ~includes(doc, "amp-story")>>)
      warnings == Pushed(<<"Missing structured data (JSON-LD)", "Missing viewport meta tag",
                           "Missing canonical URL">>,
                         <<~includes(doc, "application/ld+json"), ~includes(doc, "viewport"),
                           ~includes(doc, "canonical")>>)
  IN [isValid |-> Len(errors) = 0, errors |-> errors, warnings |-> warnings]

validateAMPHTMLStrict(doc) ==
  LET errors == Pushed(<<"Missing AMP attribute in html tag", "Missing amp-story component",
                         "Missing viewport meta tag">>,
                       <<~includes(doc, "⚡") /\ ~includes(doc, "amp"),
                         ~includes(doc, "amp-story"), ~includes(doc, "viewport")>>)
      warnings == Pushed(<<"Missing structured data (JSON-LD)", "Missing canonical URL">>,
                         <<~includes(doc, "application/ld+json"), ~includes(doc, "canonical")>>)
  IN [isValid |-> Len(errors) = 0 /\ Len(warnings) = 0, errors |-> errors, warnings |-> warnings]

\* validateAMPHTML lines 722-757
validateAMPHTML(doc) ==
  LET errors == Pushed(<<"Missing AMP attribute in html tag", "Missing amp-story component",
                         "Missing viewport meta tag">>,
                       <<~includes(doc, "⚡") /\ ~includes(doc, "amp"),
                         ~includes(doc, "amp-story"), ~includes(doc, "viewport")>>)
      warnings == Pushed(<<"Missing structured data (JSON-LD)", "Missing canonical URL">>,
                         <<~includes(doc, "application/ld+json"), ~includes(doc, "canonical")>>)
  IN [isValid |-> Len(errors) = 0, errors |-> errors, warnings |-> warnings]

\* pieces of hand-written documents
DocumentPieces ==
  { Shell("<html ⚡ lang=\"en\">"), Shell("<html amp>"),
    Shell("<meta name=\"viewport\" content=\"width=device-width\">"),
    Shell("<link rel=\"canonical\" href=\""),
    Shell("<script type=\"application/ld+json\">"),
    Shell("<amp-story standalone"), Shell("<p>Hello</p>") }

InitValidate ==
  /\ postData = Post(<<>>)
  /\ options = Option(3, TRUE, TRUE, <<"#">>, NoCustomizations)
  /\ pc = "rendered"
  /\ slides = <<>>
  /\ maxChunks = 0
  /\ i = 1
  /\ chunks = <<>>
  /\ currentChunk = <<>>
  /\ chunkWordCount = 0
  /\ templates = <<DefaultTemplate>>
  /\ templateId = DefaultTemplate.id
  /\ template = Some(DefaultTemplate)
  /\ thrown = None
  /\ metadata = DefaultMetadata
  /\ ampHTML \in {Some(d) : d \in SeqsUpTo(DocumentPieces, MaxFragments)}
  /\ validation = None
  /\ calls = 1
  /\ PageIdle
  /\ ExcerptIdle

\* a call of validateAMPHTML on the document
ValidateAMPHTML ==
  /\ pc = "rendered"
  /\ validation' = Some(validateAMPHTML(ampHTML[1]))
  /\ pc' = "validated"
  /\ UNCHANGED <<postData, options, slides, maxChunks, i, chunks, currentChunk,
                 chunkWordCount, templates, templateId, template, thrown, metadata,
                 ampHTML, calls, page, excerptCall>>

NextValidate == ValidateAMPHTML

SpecValidate == InitValidate /\ [][NextValidate]_vars

Has(marker) == includes(ampHTML[1], marker)

InSeq(x, s) == \E k \in 1..Len(s) : s[k] = x

\* C14: a document without the viewport marker is invalid and its errors
\* contain the viewport error, whatever other markers it has or lacks.
C14_NoViewportInvalid ==
  (pc = "validated" /\ ~Has("viewport")) =>
    /\ validation[1].isValid = FALSE
    /\ InSeq("Missing viewport meta tag", validation[1].errors)

\* every marker but the viewport: one error, no warning, invalid
C14_Witness ==
  /\ pc = "validated"
  /\ ~Has("viewport")
  /\ Has("⚡") /\ Has("amp-story") /\ Has("application/ld+json") /\ Has("canonical")
  /\ validation[1] = [isValid |-> FALSE, errors |-> <<"Missing viewport meta tag">>,
                      warnings |-> <<>>]

RequiredMarkers == (Has("⚡") \/ Has("amp")) /\ Has("amp-story") /\ Has("viewport")

\* C15: isValid is true exactly when the errors list is empty; a missing
\* structured-data block or canonical link only adds a warning: a document
\* with every required marker and no canonical marker gets the canonical-URL
\* warning and is valid.
C15_ValidIffNoErrors ==
  pc = "validated" =>
    /\ validation[1].isValid <=> validation[1].errors = <<>>
    /\ validation[1].errors = <<>> <=> RequiredMarkers
    /\ ~Has("canonical") <=> InSeq("Missing canonical URL", validation[1].warnings)
    /\ ~Has("application/ld+json")
         <=> InSeq("Missing structured data (JSON-LD)", validation[1].warnings)
    /\ \A k \in 1..Len(validation[1].errors) :
         validation[1].errors[k] \notin {"Missing canonical URL", "Missing structured data (JSON-LD)"}
    /\ (RequiredMarkers /\ ~Has("canonical")) => validation[1].isValid

\* every required marker, neither canonical link nor structured data: valid,
\* with the two warnings
C15_Witness ==
  /\ pc = "validated"
  /\ RequiredMarkers
  /\ ~Has("canonical") /\ ~Has("application/ld+json")
  /\ validation[1] = [isValid |-> TRUE, errors |-> <<>>,
                      warnings |-> <<"Missing structured data (JSON-LD)", "Missing canonical URL">>]

\* ----------------------------------------------------------- generateAMPHTML
\* A string is a sequence of tokens; the tokens "<", ">", "&", "\"" and "\n"
\* are the characters the escaping functions look at.

\* the characters of a paragraph of the model
Tokens(p) ==
  (IF p.lead THEN <<" ">> ELSE <<>>)
  \o (CASE p.head = "tag" -> <<"<", "h2", ">">> [] p.head = "hash" -> <<"# ">> [] OTHER -> <<>>)
  \o (CASE p.quote = "tag" -> <<"<", "blockquote", ">">> [] p.quote = "gt" -> <<">", " ">>
        [] OTHER -> <<>>)
  \o (IF p.n > 0 THEN <<"words">> ELSE <<>>)
  \o (CASE p.img = "alt" -> <<"<", "img src=", "\"", p.src, "\"", " alt=", "\"", "alt text", "\"", ">">>
        [] p.img = "quoted" -> <<"<", "img src=", "\"", p.src, "\"", ">">>
        [] p.img = "bare" -> <<"<", "img src=", p.src, ">">>
        [] OTHER -> <<>>)
  \o (IF p.quote = "tag" THEN <<"<", "/blockquote", ">">> ELSE <<>>)
  \o (IF p.head = "tag" THEN <<"<", "/h2", ">">> ELSE <<>>)

\* the characters of a text: its paragraphs joined by "\n\n"
RECURSIVE Str(_)
Str(text) ==
  IF text = <<>> THEN <<>>
  ELSE IF Len(text) = 1 THEN Tokens(text[1])
  ELSE Tokens(text[1]) \o <<"\n", "\n">> \o Str(Tail(text))

\* an optional string, undefined read as ''
StrOr(opt) == IF opt = None THEN <<>> ELSE opt[1]

\* an optional URL of the model (one token), undefined read as ''
UrlOr(opt) == IF opt = None THEN "" ELSE opt[1]

\* escapeHTML lines 672-676: the serialisation of a text node
escapeHTML(str) ==
  [k \in 1..Len(str) |->
     CASE str[k] = "&" -> "&amp;"
       [] str[k] = "<" -> "&lt;"
       [] str[k] = ">" -> "&gt;"
       [] OTHER -> str[k]]

\* escapeJSON lines 681-683
escapeJSON(str) ==
  [k \in 1..Len(str) |->
     CASE str[k] = "\"" -> "\\\""
       [] str[k] = "\n" -> "\\n"
       [] str[k] = "\r" -> "\\r"
       [] OTHER -> str[k]]

\* .replace(/\n/g, '<br>')
ReplaceNewlines(str) == [k \in 1..Len(str) |-> IF str[k] = "\n" THEN "<br>" ELSE str[k]]

\* ${value}: interpolated as it is
Raw(field, str) == [field |-> field, raw |-> str, text |-> str]

\* ${this.escapeHTML(value)}
Html(field, str) == [field |-> field, raw |-> str, text |-> escapeHTML(str)]

\* ${this.escapeJSON(value)}
Json(field, str) == [field |-> field, raw |-> str, text |-> escapeJSON(str)]

\* a style value of the slide, interpolated as it is
Style(value) == Raw("style", <<value>>)

\* generateTitleSlideAMP lines 592-603
generateTitleSlideAMP(slide) ==
  <<Shell("<div class=\"story-title-container\" style=\""), Style(slide.style.textAlign),
    Style(slide.style.textColor), Style(slide.style.fontFamily), Shell("<h1>"),
    Html("slide.title", StrOr(slide.content.title)), Shell("</h1>")>>
  \o (IF StrOr(slide.content.subtitle) # <<>>
      THEN <<Shell("<p>"), Html("slide.subtitle", slide.content.subtitle[1]), Shell("</p>")>>
      ELSE <<>>)
  \o <<Shell("</div>")>>

\* the title of a slide built from a chunk
ChunkTitle(slide) == IF slide.content.title = None THEN <<>> ELSE Tokens(slide.content.title[1])

\* generateContentSlideAMP lines 605-616
generateContentSlideAMP(slide) ==
  <<Shell("<div class=\"story-content-container\" style=\""), Style(slide.style.textColor),
    Style(slide.style.fontFamily)>>
  \o (IF ChunkTitle(slide) # <<>>
      THEN <<Shell("<h2 style=\""), Style(OrElse(slide.style.accentColor, Plain(slide.style.textColor)).css),
             Html("slide.title", ChunkTitle(slide)), Shell("</h2>")>>
      ELSE <<>>)
  \o <<Shell("<div style=\""), Style(slide.style.textAlign),
       [field |-> "slide.text", raw |-> Str(slide.content.text[1]),
        text |-> ReplaceNewlines(escapeHTML(Str(slide.content.text[1])))],
       Shell("</div>"), Shell("</div>")>>

\* generateImageSlideAMP lines 618-636
generateImageSlideAMP(slide) ==
  (IF UrlOr(slide.content.image) # ""
   THEN <<Shell("<amp-img src=\""), Raw("slide.image", <<slide.content.image[1]>>),
          Shell("alt=\""),
          Html("slide.imageAlt", IF slide.content.imageAlt = None THEN <<>>
                                 ELSE <<slide.content.imageAlt[1]>>),
          Shell("</amp-img>")>>
   ELSE <<>>)
  \o <<Shell("<div class=\"story-image-overlay\" style=\""), Style(slide.style.textColor),
       Style(slide.style.fontFamily)>>
  \o (IF ChunkTitle(slide) # <<>>
      THEN <<Shell("<h2>"), Html("slide.title", ChunkTitle(slide)), Shell("</h2>")>>
      ELSE <<>>)
  \o (IF Str(slide.content.text[1]) # <<>>
      THEN <<Shell("<p>"), Html("slide.text", Str(slide.content.text[1])), Shell("</p>")>>
      ELSE <<>>)
  \o <<Shell("</div>")>>

\* generateQuoteSlideAMP lines 638-649
generateQuoteSlideAMP(slide) ==
  <<Shell("<div class=\"story-quote-container\" style=\""), Style(slide.style.textColor),
    Style(slide.style.fontFamily), Shell("<blockquote>"),
    IF slide.content.quote # None /\ Str(slide.content.quote[1]) # <<>>
    THEN Html("slide.quote", Str(slide.content.quote[1]))
    ELSE Html("slide.text", Str(slide.content.text[1])),
    Shell("</blockquote>")>>
  \o (IF StrOr(slide.content.author) # <<>>
      THEN <<Shell("<cite>"), Html("slide.author", slide.content.author[1]), Shell("</cite>")>>
      ELSE <<>>)
  \o <<Shell("</div>")>>

\* generateCTASlideAMP lines 651-667
generateCTASlideAMP(slide) ==
  <<Shell("<div class=\"story-cta-container\" style=\""), Style(slide.style.textColor),
    Style(slide.style.fontFamily), Shell("<h2>"),
    Html("slide.title", StrOr(slide.content.title)), Shell("</h2>")>>
  \o (IF StrOr(slide.content.subtitle) # <<>>
      THEN <<Shell("<p>"), Html("slide.subtitle", slide.content.subtitle[1]), Shell("</p>")>>
      ELSE <<>>)
  \o (IF StrOr(slide.content.buttonUrl) # <<>>
      THEN <<Shell("<a href=\""), Raw("slide.buttonUrl", slide.content.buttonUrl[1]),
             Shell("style=\""),
             Style(OrElse(slide.style.accentColor, Plain(slide.style.textColor)).css),
             Style(slide.style.backgroundColor.css),
             Html("slide.buttonText", IF StrOr(slide.content.buttonText) # <<>>
                                      THEN slide.content.buttonText[1] ELSE <<"Learn More">>),
             Shell("</a>")>>
      ELSE <<>>)
  \o <<Shell("</div>")>>

\* generateSlideAMP lines 557-590
generateSlideAMP(slide) ==
  <<Shell("<amp-story-page id=\"slide-"), Raw("id", <<slide.id>>),
    Shell("<amp-story-grid-layer>"), Style(slide.style.backgroundColor.css),
    Shell("<amp-story-grid-layer>")>>
  \o (CASE slide.type = "title" -> generateTitleSlideAMP(slide)
        [] slide.type = "content" -> generateContentSlideAMP(slide)
        [] slide.type = "image" -> generateImageSlideAMP(slide)
        [] slide.type = "quote" -> generateQuoteSlideAMP(slide)
        [] slide.type = "cta" -> generateCTASlideAMP(slide)
        [] OTHER -> generateContentSlideAMP(slide))
  \o <<Shell("</amp-story-page>")>>

\* slides.map(generateSlideAMP).join('\n')
RECURSIVE SlidesAMP(_)
SlidesAMP(ss) == IF ss = <<>> THEN <<>> ELSE generateSlideAMP(ss[1]) \o SlidesAMP(Tail(ss))

\* lines 480-485: the html tag, the title, the canonical link
HeadStart(md) ==
  <<Shell("<!doctype html>"), Shell("<html ⚡ lang=\"en\">"), Shell("<title>"),
    Html("metadata.title", md.title), Shell("</title>"),
    Shell("<link rel=\"canonical\" href=\""), Raw("metadata.canonicalUrl", md.canonicalUrl)>>

\* lines 487-525: description, Open Graph, boilerplate, scripts, JSON-LD
HeadRest(md) ==
  <<Shell("<meta name=\"description\" content=\""), Html("metadata.description", md.description),
    Shell("<meta property=\"og:title\" content=\""), Html("metadata.title", md.title),
    Shell("<meta property=\"og:description\" content=\""),
    Html("metadata.description", md.description),
    Shell("<style amp-boilerplate>"),
    Shell("<script async src=\"https://cdn.ampproject.org/v0.js\">"),
    Shell("<script async custom-element=\"amp-story\">"),
    Shell("<script type=\"application/ld+json\">"),
    Json("metadata.title", md.title), Json("metadata.description", md.description),
    Json("metadata.author", md.author), Json("metadata.publisherName", md.publisherName),
    Raw("metadata.publisherLogo", md.publisherLogo),
    Raw("metadata.canonicalUrl", md.canonicalUrl),
    Raw("date", <<"new Date().toISOString()">>), Shell("</script>"), Shell("</head>")>>

DocumentHeadWithoutViewport(md) == HeadStart(md) \o HeadRest(md)

\* lines 480-525, with the viewport meta tag of line 486
DocumentHead(md) ==
  HeadStart(md)
  \o <<Shell("<meta name=\"viewport\" content=\"width=device-width\">")>>
  \o HeadRest(md)

\* slides[0]?.content.image || metadata.publisherLogo, line 532
Poster(ss, md) ==
  IF ss # <<>> /\ UrlOr(ss[1].content.image) # ""
  THEN Raw("slide.image", <<ss[1].content.image[1]>>)
  ELSE Raw("metadata.publisherLogo", md.publisherLogo)

\* generateAMPHTML lines 471-552
generateAMPHTML(ss, md) ==
  DocumentHead(md)
  \o <<Shell("<body>"), Shell("<amp-story standalone"), Html("metadata.title", md.title),
       Html("metadata.publisherName", md.publisherName),
       Raw("metadata.publisherLogo", md.publisherLogo), Poster(ss, md)>>
  \o SlidesAMP(ss)
  \o <<Shell("<amp-story-auto-ads>"), Shell("</amp-story>"), Shell("</body>"), Shell("</html>")>>

\* the contents, posts, options and metadata the rendered stories are made of
RenderContents ==
  { <<>>,
    <<P(FALSE, "none", "none", "none", "", 5)>>,
    <<P(FALSE, "tag", "none", "none", "", 3), P(FALSE, "none", "none", "none", "", 30)>>,
    <<P(FALSE, "none", "none", "none", "", 30), P(FALSE, "none", "none", "none", "", 51)>>,
    <<P(FALSE, "none", "tag", "none", "", 6), P(TRUE, "none", "gt", "none", "", 4)>>,
    <<P(FALSE, "none", "none", "alt", "a.png", 5)>>,
    <<P(FALSE, "none", "tag", "quoted", "b.png", 2), P(FALSE, "none", "none", "bare", "c.png", 5)>> }

RenderPosts ==
  {[Post(c) EXCEPT !.title = t, !.featuredImage = f] :
     c \in RenderContents,
     t \in {<<"Hello World">>, <<"Q", "&", "A ", "<", "3">>},
     f \in {None, Some("cover.png")}}

RenderOptions ==
  {Option(m, t, c, u, NoCustomizations) :
     m \in {1, 3, 5}, t \in BOOLEAN, c \in BOOLEAN,
     u \in {<<"#">>, <<>>, <<"javascript:alert(1)", "\"", ">", "<", "script", ">">>}}

HostileMetadata ==
  [title |-> <<"Tom ", "&", " Jerry ", "<", "b", ">">>,
   description |-> <<"say ", "\"", "hi", "\"", "\n">>,
   author |-> <<"</script>", "<", "script", ">">>,
   publisherName |-> <<"Pub ", "<", "i", ">">>,
   publisherLogo |-> <<"logo.png", "\"", ">", "<", "script", ">">>,
   canonicalUrl |-> <<"https://example.com/?a=1", "&", "b=2", "\"", ">", "<", "script", ">">>]

InitRender ==
  /\ postData \in RenderPosts
  /\ options \in RenderOptions
  /\ pc = "start"
  /\ slides = <<>>
  /\ maxChunks = 0
  /\ i = 1
  /\ chunks = <<>>
  /\ currentChunk = <<>>
  /\ chunkWordCount = 0
  /\ templates = <<DefaultTemplate>>
  /\ templateId = DefaultTemplate.id
  /\ template = Some(DefaultTemplate)
  /\ thrown = None
  /\ metadata \in {DefaultMetadata, HostileMetadata}
  /\ ampHTML = None
  /\ validation = None
  /\ calls = 1
  /\ PageIdle
  /\ ExcerptIdle

\* a call of generateAMPHTML on the slides generateStory returned
GenerateAMPHTML ==
  /\ pc = "done"
  /\ ampHTML' = Some(generateAMPHTML(slides, metadata))
  /\ pc' = "rendered"
  /\ UNCHANGED <<postData, options, slides, maxChunks, i, chunks, currentChunk,
                 chunkWordCount, templates, templateId, template, thrown, metadata,
                 validation, calls, page, excerptCall>>

NextRender == Next \/ GenerateAMPHTML \/ ValidateAMPHTML

SpecRender == InitRender /\ [][NextRender]_vars

\* C16: the markup generateAMPHTML renders from the slides of generateStory
\* is valid for validateAMPHTML, whatever the post, the options, the metadata
\* and the number and types of the slides.
C16_RoundTripValid ==
  pc = "validated" => validation[1].isValid = TRUE /\ validation[1].errors = <<>>

\* a story of a quote slide, an image slide and a CTA slide under metadata
\* full of markup characters, rendered and validated
C16_Witness ==
  /\ pc = "validated"
  /\ validation[1].isValid
  /\ metadata = HostileMetadata
  /\ \E k \in 1..Len(slides) : slides[k].type = "quote"
  /\ \E k \in 1..Len(slides) : slides[k].type = "image"
  /\ \E k \in 1..Len(slides) : slides[k].type = "cta"

\* the fields of the markup that come from the user
UserFields ==
  {"metadata.title", "metadata.description", "metadata.canonicalUrl",
   "metadata.publisherName", "metadata.publisherLogo",
   "slide.title", "slide.subtitle", "slide.text", "slide.quote", "slide.author",
   "slide.image", "slide.imageAlt", "slide.buttonText", "slide.buttonUrl"}

\* C17: every user-supplied field of the markup (metadata title, description,
\* canonical URL, publisher name and logo; slide title, subtitle, text, quote,
\* author, image URL, image alt, button text, button URL) stands in it as the
\* HTML-escaping function returns it (line breaks then turned into <br>).
C17_UserFieldsEscaped ==
  ampHTML # None =>
    \A k \in 1..Len(ampHTML[1]) :
      ampHTML[1][k].field \in UserFields =>
        ampHTML[1][k].text \in {escapeHTML(ampHTML[1][k].raw),
                                ReplaceNewlines(escapeHTML(ampHTML[1][k].raw))}

\* ------------------------------------------------- calls on the same generator
MaxCalls == 2

CallContents ==
  { <<>>,
    <<P(FALSE, "none", "none", "none", "", 5)>>,
    <<P(FALSE, "none", "tag", "none", "", 6), P(FALSE, "none", "none", "alt", "a.png", 5)>> }

\* customizations: a part of a config
Customizations ==
  { NoCustomizations,
    [backgroundColor |-> Plain("#123456")],
    [textColor |-> "#000000", accentColor |-> Plain("")] }

CallPosts == {Post(c) : c \in CallContents}

CallOptions ==
  {Option(m, t, c, <<"#">>, cust) :
     m \in {2, 4}, t \in BOOLEAN, c \in BOOLEAN, cust \in Customizations}

InitCalls == InitWith(CallPosts, CallOptions)

\* the next call of generateStory on the same generator: new arguments, new locals
CallAgain ==
  /\ pc = "done"
  /\ calls < MaxCalls
  /\ postData' \in CallPosts
  /\ options' \in CallOptions
  /\ pc' = "start"
  /\ slides' = <<>>
  /\ maxChunks' = 0
  /\ i' = 1
  /\ chunks' = <<>>
  /\ currentChunk' = <<>>
  /\ chunkWordCount' = 0
  /\ calls' = calls + 1
  /\ UNCHANGED <<templates, templateId, template, thrown, metadata, ampHTML, validation, page, excerptCall>>

NextCalls == Next \/ CallAgain

SpecCalls == InitCalls /\ [][NextCalls]_vars

\* the slides of the call on a generator freshly created from the template
FreshStory(post, opts) ==
  LET cfg == Merge(DefaultTemplate.config, opts.customizations)
      cap == ChunkBudget(opts)
  IN (IF opts.includeTitle THEN <<createTitleSlide(post, cfg)>> ELSE <<>>)
     \o createContentSlides(post, cfg, segmentContent(post.content, cap), cap)
     \o (IF opts.includeCTA THEN <<createCTASlide(post, cfg, opts.ctaText, opts.ctaUrl)>>
         ELSE <<>>)

\* C18: generateStory changes neither the stored template nor, during a
\* call, the post or the options; after any sequence of calls on one generator
\* a call returns the slides the same call returns on a fresh generator.
C18_CallsLeaveNoTrace ==
  /\ [](pc = "done" => slides = FreshStory(postData, options))
  /\ [][/\ template' = template
        /\ pc # "done" => postData' = postData /\ options' = options]_vars

\* a later call without customizations has returned a story with the colours
\* of the template
C18_Witness ==
  /\ pc = "done"
  /\ calls = MaxCalls
  /\ options.customizations = NoCustomizations
  /\ options.includeTitle
  /\ Len(slides) >= 3
  /\ slides[1].style.backgroundColor = DefaultTemplate.config.backgroundColor

\* ----------------------------------------------------- properties, C21 to C30
\* C22: for a cap of at least 0 the chunks returned are the first cap chunks
\* of the segmentation of the same content without a cap.
C22_PrefixOfUncapped ==
  (Segmented /\ maxChunks >= 0) =>
    LET uncapped == UncappedChunks(content)
    IN chunks = SubSeq(uncapped, 1, Min(maxChunks, Len(uncapped)))

\* a cut that left paragraphs unread and a buffer behind
C22_Witness ==
  /\ Segmented
  /\ maxChunks >= 1
  /\ Len(UncappedChunks(content)) > maxChunks
  /\ Len(chunks) = maxChunks
  /\ i < Len(content)
  /\ currentChunk # <<>>

\* C23: a heading that arrives while the buffer is not empty first closes the
\* buffer as a plain chunk without title, and is then appended; a heading is
\* always the first paragraph of the chunk that contains it.
C23_HeadingOpensChunk ==
  /\ [][(pc = "loop" /\ isHeading(content[i]) /\ currentChunk # <<>>) =>
          /\ Len(chunks') > Len(chunks)
          /\ chunks'[Len(chunks) + 1] = PlainChunk(None, Trim(currentChunk))
          /\ currentChunk' \in {<<>>, <<content[i]>>}]_vars
  /\ [](/\ \A k \in 1..Len(chunks) : \A j \in 2..Len(chunks[k].text) :
             ~isHeading(chunks[k].text[j])
        /\ \A j \in 2..Len(currentChunk) : ~isHeading(currentChunk[j]))

\* a heading arrived on a buffer: the chunk before the heading's is plain and
\* the heading opens the next one
C23_Witness ==
  /\ pc = "done"
  /\ Len(chunks) >= 2
  /\ ~isHeading(chunks[1].text[1])
  /\ chunks[1].title = None
  /\ isHeading(chunks[2].text[1])
  /\ Len(chunks[2].text) >= 2

\* the paragraphs of all chunks, in order
RECURSIVE ChunkParagraphs(_)
ChunkParagraphs(cs) == IF cs = <<>> THEN <<>> ELSE cs[1].text \o ChunkParagraphs(Tail(cs))

\* C27: while the cap has not been reached every consumed paragraph is in the
\* text of exactly one chunk, also those in the buffer when a quote closed it.
C27_NoConsumedTextLost ==
  (Segmented /\ Len(chunks) < maxChunks) =>
    LET emitted == ChunkParagraphs(chunks)
    IN /\ Len(emitted) = Len(content)
       /\ \A k \in 1..Len(content) :
            emitted[k] \in {content[k], TrimPiece(content[k]), cleanQuoteText(content[k])}

\* C28: the open buffer holds more than 50 words only when it is a single
\* paragraph, and every chunk made of two or more paragraphs has at most 50
\* words.
C28_OverBudgetOnlySingleParagraph ==
  /\ Len(currentChunk) >= 2 => SumWords(currentChunk) <= maxWordsPerSlide
  /\ chunkWordCount = SumWords(currentChunk)
  /\ \A k \in 1..Len(chunks) :
       Len(chunks[k].text) >= 2 => SumWords(chunks[k].text) <= maxWordsPerSlide

\* a chunk of two paragraphs within the budget next to a chunk of one
\* paragraph over it
C28_Witness ==
  /\ pc = "done"
  /\ \E k \in 1..Len(chunks) :
       Len(chunks[k].text) >= 2 /\ SumWords(chunks[k].text) > 30
  /\ \E k \in 1..Len(chunks) :
       Len(chunks[k].text) = 1 /\ SumWords(chunks[k].text) > maxWordsPerSlide

\* ------------------------------------------------------------- useWebSocket
\* sockets lists every WebSocket the hook has created, each with its
\* readyState and with who called the connect() that created it; wsRef is
\* the index of wsRef.current in it (0 for null); timers holds the sockets
\* whose close handler has a setTimeout(connect, 3000) pending; disconnected
\* records that disconnect() ran and no caller has called connect() since.
\* The message handler and sendMessage read and write none of these.
MaxSockets == 3

\* the generator at rest
GeneratorIdle ==
  /\ postData = Post(<<>>)
  /\ options = Option(3, TRUE, TRUE, <<"#">>, NoCustomizations)
  /\ slides = <<>>
  /\ maxChunks = 0
  /\ i = 1
  /\ chunks = <<>>
  /\ currentChunk = <<>>
  /\ chunkWordCount = 0
  /\ templates = <<DefaultTemplate>>
  /\ templateId = DefaultTemplate.id
  /\ template = Some(DefaultTemplate)
  /\ thrown = None
  /\ metadata = DefaultMetadata
  /\ ampHTML = None
  /\ validation = None
  /\ calls = 1

generator == <<postData, options, slides, maxChunks, i, chunks, currentChunk,
               chunkWordCount, templates, templateId, template, thrown, metadata,
               ampHTML, validation, calls, excerptCall>>

builder == <<story, currentSlideIndex, pendingSlides>>

InitSocket ==
  /\ GeneratorIdle
  /\ PageIdle
  /\ ExcerptIdle
  /\ pc = "idle"

ShouldCreateWithoutRef(ref, socks) == ref = 0

\* lines 10-12: connect() returns the current socket when it is OPEN
ShouldCreate(ref, socks) == ~(ref # 0 /\ socks[ref].readyState = "OPEN")

\* connect() lines 9-72, called by who
connect(who) ==
  IF ShouldCreate(wsRef, sockets)
  THEN /\ sockets' = Append(sockets, [readyState |-> "CONNECTING", createdBy |-> who])
       /\ wsRef' = Len(sockets) + 1
  ELSE UNCHANGED <<sockets, wsRef>>

\* disconnect() lines 74-79; close() leaves a CLOSING or CLOSED socket as it is
disconnect ==
  IF wsRef # 0
  THEN /\ sockets' = [sockets EXCEPT ![wsRef].readyState =
                        IF @ \in {"CONNECTING", "OPEN"} THEN "CLOSING" ELSE @]
       /\ wsRef' = 0
  ELSE UNCHANGED <<sockets, wsRef>>

\* room for one more socket, each pending timer counted as one
Room == Len(sockets) + Cardinality(timers) < MaxSockets

\* useEffect lines 95-98: connect() when the component mounts
Mount ==
  /\ pc = "idle"
  /\ connect("mount")
  /\ pc' = "mounted"
  /\ UNCHANGED <<timers, disconnected, builder, generator>>

\* a caller of the hook calls the connect() it returned
Connect ==
  /\ pc = "mounted"
  /\ Room
  /\ connect("caller")
  /\ disconnected' = FALSE
  /\ UNCHANGED <<pc, timers, builder, generator>>

\* a caller of the hook calls the disconnect() it returned
Disconnect ==
  /\ pc = "mounted"
  /\ disconnect
  /\ disconnected' = TRUE
  /\ UNCHANGED <<pc, timers, builder, generator>>

\* useEffect cleanup line 97: disconnect() when the component unmounts
Unmount ==
  /\ pc = "mounted"
  /\ disconnect
  /\ disconnected' = TRUE
  /\ pc' = "unmounted"
  /\ UNCHANGED <<timers, builder, generator>>

\* the open event of socket k, lines 20-22
SocketOpens(k) ==
  /\ k \in 1..Len(sockets)
  /\ sockets[k].readyState = "CONNECTING"
  /\ sockets' = [sockets EXCEPT ![k].readyState = "OPEN"]
  /\ UNCHANGED <<pc, wsRef, timers, disconnected, builder, generator>>

\* the close event of socket k and its handler, lines 61-65
SocketCloses(k) ==
  /\ k \in 1..Len(sockets)
  /\ sockets[k].readyState # "CLOSED"
  /\ Room
  /\ sockets' = [sockets EXCEPT ![k].readyState = "CLOSED"]
  /\ timers' = timers \cup {k}
  /\ UNCHANGED <<pc, wsRef, disconnected, builder, generator>>

\* the timer set by the close handler of socket k fires: connect()
TimerFires(k) ==
  /\ k \in timers
  /\ timers' = timers \ {k}
  /\ connect("timer")
  /\ UNCHANGED <<pc, disconnected, builder, generator>>

NextSocket ==
  \/ Mount
  \/ Connect
  \/ Disconnect
  \/ Unmount
  \/ \E k \in 1..MaxSockets : SocketOpens(k)
  \/ \E k \in 1..MaxSockets : SocketCloses(k)
  \/ \E k \in 1..MaxSockets : TimerFires(k)

\* a timer that was set fires
SpecSocket ==
  InitSocket /\ [][NextSocket]_vars /\ \A k \in 1..MaxSockets : WF_vars(TimerFires(k))

\* C25: the close event of a socket sets a timer, the timer leads to a call
\* of connect(), and that call creates a new socket, which becomes the
\* current one, unless the current socket is OPEN.
C25_CloseLeadsToReconnect ==
  /\ [][\A k \in 1..Len(sockets) :
          (sockets[k].readyState # "CLOSED" /\ sockets'[k].readyState = "CLOSED")
            => k \in timers']_vars
  /\ \A k \in 1..MaxSockets : (k \in timers) ~> (k \notin timers)
  /\ [][(\E k \in timers : k \notin timers') =>
          IF wsRef # 0 /\ sockets[wsRef].readyState = "OPEN"
          THEN sockets' = sockets /\ wsRef' = wsRef
          ELSE /\ Len(sockets') = Len(sockets) + 1
               /\ wsRef' = Len(sockets')
               /\ sockets'[wsRef'].readyState = "CONNECTING"]_vars

\* the first socket closed while the hook was mounted and the timer's call of
\* connect() has created its replacement, which is open
C25_Witness ==
  /\ pc = "mounted"
  /\ ~disconnected
  /\ Len(sockets) = 2
  /\ sockets[1].readyState = "CLOSED"
  /\ sockets[2] = [readyState |-> "OPEN", createdBy |-> "timer"]
  /\ wsRef = 2
  /\ timers = {}

\* C29: once disconnect() has run, a WebSocket is created only by a call of
\* connect() from a caller.
C29_NoSocketAfterDisconnect ==
  [][(disconnected /\ Len(sockets') > Len(sockets)) => ~disconnected']_vars

\* ------------------------------------------------------------ StoryBuilder
\* story is the slide list of the story the page shows (the data of the
\* query); currentSlideIndex is the state of that name, counted from 0;
\* pendingSlides is the slide list of an update sent and not yet answered.
\* The page loads a story that generateStory has produced. An operation is
\* taken when no update is pending, so that it applies to the story the
\* operation before it has left.
MaxStorySlides == 4

socket == <<sockets, wsRef, timers, disconnected>>

BuilderContents ==
  { <<>>,
    <<P(FALSE, "none", "none", "none", "", 5)>> }

BuilderOptions ==
  {Option(3, t, c, <<"#">>, NoCustomizations) : t \in BOOLEAN, c \in BOOLEAN}

InitBuilder == InitWith({Post(c) : c \in BuilderContents}, BuilderOptions)

\* the query of lines 45-49 answers with the generated story
LoadStory ==
  /\ pc = "done"
  /\ story' = slides
  /\ currentSlideIndex' = 0
  /\ pc' = "builder"
  /\ UNCHANGED <<pendingSlides, socket, generator>>

\* the page can act on the story: it is loaded and no update is pending
Editable == pc = "builder" /\ pendingSlides = None

\* the thumbnail of the slide at index is clicked, line 441
SelectSlide(index) ==
  /\ Editable
  /\ index \in 0..(Len(story) - 1)
  /\ currentSlideIndex' = index
  /\ UNCHANGED <<pc, story, pendingSlides, socket, generator>>

\* the previous button, lines 301-302
PreviousSlide ==
  /\ Editable
  /\ currentSlideIndex # 0
  /\ currentSlideIndex' = Max(0, currentSlideIndex - 1)
  /\ UNCHANGED <<pc, story, pendingSlides, socket, generator>>

\* the next button, lines 310-311
NextSlide ==
  /\ Editable
  /\ currentSlideIndex # Len(story) - 1
  /\ currentSlideIndex' = Min(Len(story) - 1, currentSlideIndex + 1)
  /\ UNCHANGED <<pc, story, pendingSlides, socket, generator>>

\* String(story.slides.length + 1), lines 143 and 721
NewSlideId(list) == toString(Len(list) + 1)

\* lines 142-156
NewSlide(list) ==
  [id |-> NewSlideId(list), type |-> "content",
   content |-> [title |-> Some(<<"New Slide">>),
                text |-> Some(<<"Add your content here...">>)],
   style |-> [backgroundColor |-> Gradient(135), textColor |-> "#ffffff",
              fontFamily |-> "Inter", animation |-> "fade", duration |-> 4]]

\* addNewSlide, lines 139-160
addNewSlide ==
  /\ Editable
  /\ Len(story) < MaxStorySlides
  /\ pendingSlides' = Some(Append(story, NewSlide(story)))
  /\ UNCHANGED <<pc, story, currentSlideIndex, socket, generator>>

\* lines 118 and 718-722: { ...currentSlide, id }, currentSlide undefined
\* when currentSlideIndex is no index of the list
DuplicatedSlide(list, index) ==
  IF index \in 0..(Len(list) - 1)
  THEN [list[index + 1] EXCEPT !.id = NewSlideId(list)]
  ELSE [id |-> NewSlideId(list)]

\* the Duplicate Slide button, lines 717-725
DuplicateSlide ==
  /\ Editable
  /\ Len(story) < MaxStorySlides
  /\ pendingSlides' = Some(Append(story, DuplicatedSlide(story, currentSlideIndex)))
  /\ UNCHANGED <<pc, story, currentSlideIndex, socket, generator>>

\* story.slides.filter((_, index) => index !== slideIndex)
Without(list, slideIndex) ==
  [k \in 1..(Len(list) - (IF slideIndex \in 0..(Len(list) - 1) THEN 1 ELSE 0)) |->
     IF slideIndex \in 0..(Len(list) - 1) /\ k > slideIndex THEN list[k + 1] ELSE list[k]]

\* deleteSlide(currentSlideIndex), lines 162-173; its buttons are rendered
\* when the story has more than one slide, lines 328 and 731
deleteSlide ==
  /\ Editable
  /\ Len(story) > 1
  /\ LET updatedSlides == Without(story, currentSlideIndex)
     IN /\ currentSlideIndex' = IF currentSlideIndex >= Len(updatedSlides)
                                THEN Len(updatedSlides) - 1
                                ELSE currentSlideIndex
        /\ pendingSlides' = Some(updatedSlides)
  /\ UNCHANGED <<pc, story, socket, generator>>

\* the update succeeded and the query is fetched again, lines 51-63
StorySaved ==
  /\ pc = "builder"
  /\ pendingSlides # None
  /\ story' = pendingSlides[1]
  /\ pendingSlides' = None
  /\ UNCHANGED <<pc, currentSlideIndex, socket, generator>>

\* the update failed, lines 64-82: the story stays as it was
StoryNotSaved ==
  /\ pc = "builder"
  /\ pendingSlides # None
  /\ pendingSlides' = None
  /\ UNCHANGED <<pc, story, currentSlideIndex, socket, generator>>

NextBuilder ==
  \/ Next
  \/ LoadStory
  \/ \E index \in 0..(MaxStorySlides - 1) : SelectSlide(index)
  \/ PreviousSlide
  \/ NextSlide
  \/ addNewSlide
  \/ DuplicateSlide
  \/ deleteSlide
  \/ StorySaved
  \/ StoryNotSaved

SpecBuilder == InitBuilder /\ [][NextBuilder]_vars

\* C26: whatever operations the page has applied, the story has at least one
\* slide and currentSlideIndex is an index of its slide list.
C26_StoryKeepsACurrentSlide ==
  pc = "builder" => Len(story) >= 1 /\ currentSlideIndex \in 0..(Len(story) - 1)

\* the ids of the slides of a list
Ids(list) == {list[k].id : k \in 1..Len(list)}

\* C30: the ids of the slides of the story stay pairwise distinct under
\* addNewSlide, the Duplicate Slide button and deleteSlide.
C30_IdsStayDistinct ==
  pc = "builder" => Cardinality(Ids(story)) = Len(story)

\* ------------------------------------------------- generateExcerpt, stepwise
\* A call of generateExcerpt on cleaned content (cleanHTML ends with trim(),
\* so the content has no white space at either end) and a maximal length.
MaxContentChars == 5
MaxExcerptLength == 4

ExcerptAlphabet == {"a", " ", "."}

CleanContents == {s \in SeqsUpTo(ExcerptAlphabet, MaxContentChars) : trim(s) = s}

InitExcerpt ==
  /\ GeneratorIdle
  /\ PageIdle
  /\ pc = "excerpt"
  /\ cleanContent \in CleanContents
  /\ maxLength \in 0..MaxExcerptLength
  /\ sentences = <<>>
  /\ excerpt = <<>>
  /\ returned = None

rest == <<postData, options, slides, maxChunks, i, chunks, currentChunk, chunkWordCount,
          templates, templateId, template, thrown, metadata, ampHTML, validation, calls,
          page>>

\* lines 417-420
GenerateExcerpt ==
  /\ pc = "excerpt"
  /\ sentences' = Sentences(cleanContent)
  /\ excerpt' = <<>>
  /\ pc' = "sentences"
  /\ UNCHANGED <<cleanContent, maxLength, returned, rest>>

\* one turn of the loop of lines 421-426
ExcerptLoop ==
  /\ pc = "sentences"
  /\ IF sentences = <<>> \/ TooLong(excerpt, sentences[1], maxLength)
     THEN pc' = "return" /\ UNCHANGED <<excerpt, sentences>>
     ELSE /\ excerpt' = WithSentence(excerpt, sentences[1])
          /\ sentences' = Tail(sentences)
          /\ pc' = pc
  /\ UNCHANGED <<cleanContent, maxLength, returned, rest>>

\* line 428
ExcerptReturn ==
  /\ pc = "return"
  /\ returned' = Some(ExcerptOrStart(excerpt, cleanContent, maxLength))
  /\ pc' = "excerpted"
  /\ UNCHANGED <<cleanContent, maxLength, sentences, excerpt, rest>>

NextExcerpt == GenerateExcerpt \/ ExcerptLoop \/ ExcerptReturn

SpecExcerpt == InitExcerpt /\ [][NextExcerpt]_vars

\* the sentences of a list, each followed by ". "
RECURSIVE WithStops(_)
WithStops(sents) ==
  IF sents = <<>> THEN <<>> ELSE sents[1] \o <<".", " ">> \o WithStops(Tail(sents))

\* C24: the excerpt is made of the first sentences, whole and in order, each
\* followed by ". "; it is never longer than maxLength; the loop stops before
\* the first sentence that would make it longer; and the result is the start
\* of the cleaned content followed by "..." exactly when no sentence fits.
C24_ExcerptWithinMaxLength ==
  pc \in {"sentences", "return", "excerpted"} =>
    /\ \E k \in 0..Len(Sentences(cleanContent)) :
         /\ excerpt = WithStops(SubSeq(Sentences(cleanContent), 1, k))
         /\ sentences = SubSeq(Sentences(cleanContent), k + 1, Len(Sentences(cleanContent)))
    /\ Len(excerpt) <= maxLength
    /\ pc = "excerpted" =>
         /\ Len(returned[1]) <= maxLength \/ excerpt = <<>>
         /\ excerpt # <<>> => returned[1] = trim(excerpt)
         /\ excerpt = <<>> =>
              returned[1] = Substring0(cleanContent, maxLength) \o <<".", ".", ".">>

\* ------------------------------------------------- posts without an excerpt
PostsWithoutExcerpt ==
  {[Post(c) EXCEPT !.excerpt = <<>>] :
     c \in {t \in SeqsUpTo(ParagraphKinds, 2) : t = <<>> \/ ~t[1].lead}}

TitleAndCTAOptions ==
  {Option(3, t, c, <<"#">>, NoCustomizations) : t \in BOOLEAN, c \in BOOLEAN}

InitWithoutExcerpt == InitWith(PostsWithoutExcerpt, TitleAndCTAOptions)

SpecWithoutExcerpt == InitWithoutExcerpt /\ [][Next]_vars

IsPlainParagraph(p) == p.head = "none" /\ p.quote = "none" /\ p.img = "none"

\* a post without excerpt, of two plain paragraphs of fewer than 50 words in
\* all, turned into a story of at most 3 slides with title and CTA
ShortPlainPost ==
  /\ pc = "done"
  /\ postData.excerpt = <<>>
  /\ Len(postData.content) = 2
  /\ IsPlainParagraph(postData.content[1]) /\ IsPlainParagraph(postData.content[2])
  /\ SumWords(postData.content) < maxWordsPerSlide
  /\ options.maxSlides = 3 /\ options.includeTitle /\ options.includeCTA

\* C21: such a post gives three slides: the title slide with the post's
\* title and the generated excerpt, one content slide whose text is the two
\* paragraphs in order with a blank line between them, and the CTA slide
\* titled "Learn More About " followed by the title.
C21_ShortPostGivesThreeSlides ==
  ShortPlainPost =>
    /\ Len(slides) = 3
    /\ slides[1].type = "title"
    /\ slides[1].content.title = Some(postData.title)
    /\ slides[1].content.subtitle =
         Some(generateExcerpt(CleanChars(postData.content), DefaultMaxLength))
    /\ slides[2].type = "content"
    /\ slides[2].content.text = Some(postData.content)
    /\ slides[3].type = "cta"
    /\ slides[3].content.title = Some(<<"Learn More About ">> \o postData.title)

\* two paragraphs of five words: the excerpt is the whole content, the one
\* sentence there is, followed by "."
C21_Witness ==
  /\ ShortPlainPost
  /\ Len(slides) = 3
  /\ Len(CleanChars(postData.content)) = 50
  /\ slides[1].content.subtitle = Some(CleanChars(postData.content) \o <<".">>)

====
